---- MODULE Spec2Model ----
(***************************************************************************)
(* A model of cron_manager.py: the schedule validator, the environment     *)
(* validation gate, and the concurrent multi-host deployment of            *)
(* CronManager.deploy / CronDeployer.deploy_crontab.                        *)
(*                                                                         *)
(* Text is modelled as a sequence of one-character strings, so that the    *)
(* parsing the validator does (split, startswith, int) is computed and not *)
(* assumed.                                                                *)
(***************************************************************************)
EXTENDS Integers, Sequences, FiniteSets, TLC

VARIABLES
    arg,        \* the argument of the pure function under check
    ret         \* its result, NotCalled before the call

pureVars == <<arg, ret>>

VARIABLES
    config,            \* the CronConfig deploy loads: [config_file, config]
    params,            \* the arguments of deploy and the clock it reads
    pc,                \* where CronManager.deploy is: call, submit, collect, returned
    hosts,             \* the target host list
    crontab_content,   \* the rendered schedule
    printed,           \* what deploy has reported to the user
    result,            \* the value deploy returned
    success_count,
    failed_count,
    collected,         \* the futures as_completed has yielded
    tpc,               \* per host-list entry: where its deploy_crontab call is
    fut,               \* per entry: the result of its future
    client,            \* per entry: the session of deploy_crontab
    bclient,           \* per entry: the session of backup_crontab
    warned,            \* per entry: the backup warning was printed
    rtmp,              \* per host: the temporary upload file
    rcron,             \* per host: the installed schedule of the user
    rbackup,           \* per host: the backup file
    faults             \* the remote operations that have failed so far

inputVars == <<config, params>>

mainVars == <<pc, hosts, crontab_content, printed, result, success_count,
              failed_count, collected>>

workerVars == <<tpc, fut, client, bclient, warned>>

remoteVars == <<rtmp, rcron, rbackup>>

deployVars == <<inputVars, mainVars, workerVars, remoteVars, faults>>

vars == <<pureVars, deployVars>>

NotCalled == [called |-> FALSE]

(***************************************************************************)
(* Bounds of the checked inputs.                                           *)
(***************************************************************************)
\* every field text of at most this many characters over Alphabet is tried
MaxFieldLen == 3

\* the longest host list of a deployment
MaxHosts == 3

\* the largest concurrency limit (max_workers) tried
MaxWorkers == 2

\* the longest job list of an environment put through the validation gate
MaxJobs == 2

\* how many remote operations may fail during one deploy call
MaxFaults == 2

\* the most words of a command under test
MaxWords == 3

\* the last reading of the clock while crontabs are generated
MaxClock == 2

(***************************************************************************)
(* Python string primitives.                                               *)
(***************************************************************************)
Digits == {"0", "1", "2", "3", "4", "5", "6", "7", "8", "9"}

Whitespace == {" ", "\t", "\n", "\r", "\f"}

DigitVal(c) ==
    CASE c = "0" -> 0 [] c = "1" -> 1 [] c = "2" -> 2 [] c = "3" -> 3
      [] c = "4" -> 4 [] c = "5" -> 5 [] c = "6" -> 6 [] c = "7" -> 7
      [] c = "8" -> 8 [] c = "9" -> 9

\* c in s
Contains(s, c) == \E k \in 1..Len(s) : s[k] = c

\* s.startswith(p)
StartsWith(s, p) == Len(s) >= Len(p) /\ SubSeq(s, 1, Len(p)) = p

\* s[n:]
Drop(s, n) == SubSeq(s, n + 1, Len(s))

\* s.split(c): the pieces between the occurrences of c, empty pieces kept
RECURSIVE SplitOn(_, _)
SplitOn(s, c) ==
    IF ~Contains(s, c) THEN <<s>>
    ELSE LET k == CHOOSE j \in 1..Len(s) :
                      s[j] = c /\ \A i \in 1..(j - 1) : s[i] # c
         IN  <<SubSeq(s, 1, k - 1)>> \o SplitOn(Drop(s, k), c)

\* s.split(): the maximal runs of non-whitespace characters
RECURSIVE SplitWs(_)
SplitWs(s) ==
    IF s = <<>> THEN <<>>
    ELSE IF s[1] \in Whitespace THEN SplitWs(Tail(s))
    ELSE LET stops == {j \in 1..Len(s) : s[j] \in Whitespace}
             k == IF stops = {} THEN Len(s) + 1
                  ELSE CHOOSE j \in stops : \A i \in stops : j <= i
         IN  <<SubSeq(s, 1, k - 1)>> \o SplitWs(Drop(s, k - 1))

\* sep.join(fields)
RECURSIVE Join(_, _)
Join(fields, sep) ==
    IF fields = <<>> THEN <<>>
    ELSE IF Len(fields) = 1 THEN fields[1]
    ELSE fields[1] \o sep \o Join(Tail(fields), sep)

\* the value of a string of digits and underscores, underscores skipped
RECURSIVE DigitsValue(_)
DigitsValue(s) ==
    IF s = <<>> THEN 0
    ELSE LET c == s[Len(s)]
             r == DigitsValue(SubSeq(s, 1, Len(s) - 1))
         IN  IF c = "_" THEN r ELSE 10 * r + DigitVal(c)

\* what int() accepts after the sign: digits, single underscores between them
IsDigitPart(s) ==
    /\ s # <<>>
    /\ \A k \in 1..Len(s) : s[k] \in Digits \cup {"_"}
    /\ s[1] # "_" /\ s[Len(s)] # "_"
    /\ \A k \in 1..(Len(s) - 1) : ~(s[k] = "_" /\ s[k + 1] = "_")

\* int(s): [ok |-> TRUE, val |-> n], or ok = FALSE for a ValueError
PyInt(s) ==
    LET signed == s # <<>> /\ s[1] \in {"+", "-"}
        body   == IF signed THEN Tail(s) ELSE s
    IN  IF IsDigitPart(body)
        THEN [ok |-> TRUE,
              val |-> IF signed /\ s[1] = "-" THEN 0 - DigitsValue(body)
                      ELSE DigitsValue(body)]
        ELSE [ok |-> FALSE, val |-> 0]

(***************************************************************************)
(* CronValidator.validate_schedule                                         *)
(***************************************************************************)
\* ranges: (min_val, max_val, name) of the fields in order
ranges ==
    << [min_val |-> 0, max_val |-> 59, name |-> "minute"],
       [min_val |-> 0, max_val |-> 23, name |-> "hour"],
       [min_val |-> 1, max_val |-> 31, name |-> "day"],
       [min_val |-> 1, max_val |-> 12, name |-> "month"],
       [min_val |-> 0, max_val |-> 7,  name |-> "weekday"] >>

Passed == [ok |-> TRUE, err |-> "none", field |-> "none"]

Failed(e, f) == [ok |-> FALSE, err |-> e, field |-> f]

InRange(v, r) == r.min_val <= v /\ v <= r.max_val

\* the body of the loop for one field: Passed stands for `continue`
ValidateStep(part, r) ==
    LET step == PyInt(Drop(part, 2))
    IN  IF ~step.ok THEN Failed("StepFormat", r.name)
        ELSE IF step.val <= 0 THEN Failed("StepNotPositive", r.name)
        ELSE Passed

ValidateRange(part, r) ==
    LET pieces == SplitOn(part, "-")
        start  == PyInt(pieces[1])
        end    == PyInt(pieces[2])
    IN  IF Len(pieces) # 2 \/ ~start.ok \/ ~end.ok
        THEN Failed("RangeFormat", r.name)
        ELSE IF ~(InRange(start.val, r) /\ InRange(end.val, r))
        THEN Failed("RangeOutOfRange", r.name)
        ELSE IF start.val > end.val THEN Failed("RangeStartAfterEnd", r.name)
        ELSE Passed

ValidateList(part, r) ==
    LET pieces == SplitOn(part, ",")
    IN  IF \E k \in 1..Len(pieces) : ~PyInt(pieces[k]).ok
        THEN Failed("ListFormat", r.name)
        ELSE IF \E k \in 1..Len(pieces) : ~InRange(PyInt(pieces[k]).val, r)
        THEN Failed("ListValueOutOfRange", r.name)
        ELSE Passed

ValidateValue(part, r) ==
    LET value == PyInt(part)
    IN  IF ~value.ok THEN Failed("ValueFormat", r.name)
        ELSE IF ~InRange(value.val, r) THEN Failed("ValueOutOfRange", r.name)
        ELSE Passed

ValidateField(part, r) ==
    IF part = <<"*">> THEN Passed
    ELSE IF StartsWith(part, <<"*", "/">>) THEN ValidateStep(part, r)
    ELSE IF Contains(part, "-") THEN ValidateRange(part, r)
    ELSE IF Contains(part, ",") THEN ValidateList(part, r)
    ELSE ValidateValue(part, r)

validate_schedule(schedule) ==
    LET parts == SplitWs(schedule)
        bad   == {i \in 1..5 : ~ValidateField(parts[i], ranges[i]).ok}
    IN  IF Len(parts) # 5 THEN Failed("WrongFieldCount", "none")
        ELSE IF bad = {} THEN Passed
        ELSE LET i == CHOOSE j \in bad : \A k \in bad : j <= k
             IN  ValidateField(parts[i], ranges[i])

(***************************************************************************)
(* CronValidator.validate_command                                          *)
(***************************************************************************)
UpperCase ==
    << "A", "B", "C", "D", "E", "F", "G", "H", "I", "J", "K", "L", "M",
       "N", "O", "P", "Q", "R", "S", "T", "U", "V", "W", "X", "Y", "Z" >>

LowerCase ==
    << "a", "b", "c", "d", "e", "f", "g", "h", "i", "j", "k", "l", "m",
       "n", "o", "p", "q", "r", "s", "t", "u", "v", "w", "x", "y", "z" >>

\* re.IGNORECASE: characters are compared in lower case
Lower(c) ==
    IF \E k \in 1..26 : UpperCase[k] = c
    THEN LowerCase[CHOOSE k \in 1..26 : UpperCase[k] = c]
    ELSE c

\* the literal lit matches s at position i, case ignored
MatchLit(s, i, lit) ==
    /\ i >= 1
    /\ i + Len(lit) - 1 <= Len(s)
    /\ \A k \in 1..Len(lit) : Lower(s[i + k - 1]) = Lower(lit[k])

\* \s+ at position i: the position after the run, 0 when there is no run
AfterSpaces(s, i) ==
    IF i < 1 \/ i > Len(s) \/ s[i] \notin Whitespace THEN 0
    ELSE LET rest == {j \in i..Len(s) : s[j] \notin Whitespace}
         IN  IF rest = {} THEN Len(s) + 1
             ELSE CHOOSE j \in rest : \A k \in rest : j <= k

\* rm\s+-rf\s+/
MatchRmRf(s, i) ==
    /\ MatchLit(s, i, <<"r", "m">>)
    /\ LET j == AfterSpaces(s, i + 2)
       IN  /\ j > 0
           /\ MatchLit(s, j, <<"-", "r", "f">>)
           /\ LET k == AfterSpaces(s, j + 3)
              IN  k > 0 /\ MatchLit(s, k, <<"/">>)

\* dd\s+if=.*of=/dev/   (`.` matches no newline)
MatchDd(s, i) ==
    /\ MatchLit(s, i, <<"d", "d">>)
    /\ LET j == AfterSpaces(s, i + 2)
       IN  /\ j > 0
           /\ MatchLit(s, j, <<"i", "f", "=">>)
           /\ \E m \in (j + 3)..Len(s) :
                  /\ MatchLit(s, m, <<"o", "f", "=", "/", "d", "e", "v", "/">>)
                  /\ \A k \in (j + 3)..(m - 1) : s[k] # "\n"

\* mkfs\.
MatchMkfs(s, i) == MatchLit(s, i, <<"m", "k", "f", "s", ".">>)

\* format\s+
MatchFormat(s, i) == MatchLit(s, i, <<"f", "o", "r", "m", "a", "t">>) /\ AfterSpaces(s, i + 6) > 0

\* re.search of any of dangerous_patterns
IsDangerous(s) ==
    \E i \in 1..Len(s) :
        MatchRmRf(s, i) \/ MatchDd(s, i) \/ MatchMkfs(s, i) \/ MatchFormat(s, i)

\* not command.strip()
IsBlank(s) == \A k \in 1..Len(s) : s[k] \in Whitespace

validate_command(command) ==
    IF IsBlank(command) THEN Failed("Empty", "command")
    ELSE IF IsDangerous(command) THEN Failed("Dangerous", command)
    ELSE Passed

(***************************************************************************)
(* CronConfig.  A dict is a function whose domain is the set of its keys,  *)
(* so that `'name' in job` is "name" \in DOMAIN job.  self is the record   *)
(* [config_file, config].  An absent or None text is the empty text, which *)
(* is as falsy as None in every test the code makes on it.                 *)
(***************************************************************************)
None == <<>>

\* d.get(k, default)
Get(d, k, default) == IF k \in DOMAIN d THEN d[k] ELSE default

\* the concatenation of a sequence of sequences
RECURSIVE Flatten(_)
Flatten(ss) == IF ss = <<>> THEN <<>> ELSE Head(ss) \o Flatten(Tail(ss))

\* the errors validate appends for server group number i (counted from 1)
ServerGroupErrors(server_group, i) ==
    LET id == Get(server_group, "group", <<"index", i - 1>>)
    IN  (IF "group" \notin DOMAIN server_group
         THEN << <<"GroupMissingGroup", i - 1>> >> ELSE <<>>)
        \o (IF "hosts" \notin DOMAIN server_group
            THEN << <<"GroupMissingHosts", id>> >>
            ELSE IF server_group["hosts"] = <<>>
            THEN << <<"GroupHostsEmpty", id>> >>
            ELSE <<>>)

\* job_names if the loop never added a name to it
NamesNeverAdded(jobs, i) == {}

\* job_names when the loop reaches job number i
NamesBefore(jobs, i) ==
    {jobs[k]["name"] : k \in {j \in 1..(i - 1) : "name" \in DOMAIN jobs[j]}}

\* the errors validate appends for job number i (counted from 1)
JobErrors(jobs, i) ==
    LET job    == jobs[i]
        job_id == IF "name" \in DOMAIN job THEN <<"name", job["name"]>>
                  ELSE <<"index", i - 1>>
    IN  (IF "name" \notin DOMAIN job
         THEN << <<"JobMissingName", <<"index", i - 1>> >> >>
         ELSE IF job["name"] \in NamesBefore(jobs, i)
         THEN << <<"DuplicateName", job["name"]>> >>
         ELSE <<>>)
        \o (IF "schedule" \notin DOMAIN job
            THEN << <<"JobMissingSchedule", job_id>> >>
            ELSE IF ~validate_schedule(job["schedule"]).ok
            THEN << <<"BadSchedule", job_id, validate_schedule(job["schedule"])>> >>
            ELSE <<>>)
        \o (IF "command" \notin DOMAIN job
            THEN << <<"JobMissingCommand", job_id>> >>
            ELSE IF ~validate_command(job["command"]).ok
            THEN << <<"BadCommand", job_id, validate_command(job["command"])>> >>
            ELSE <<>>)

\* validate if it returned after the test of the required keys
ValidateRequiredKeysOnly(self) ==
    [valid |-> "servers" \in DOMAIN self.config /\ "jobs" \in DOMAIN self.config,
     errors |-> <<>>]

\* CronConfig.validate: (valid, errors)
validate(self) ==
    LET required == (IF "servers" \notin DOMAIN self.config
                     THEN << <<"MissingServers">> >> ELSE <<>>)
                    \o (IF "jobs" \notin DOMAIN self.config
                        THEN << <<"MissingJobs">> >> ELSE <<>>)
        servers  == Get(self.config, "servers", <<>>)
        jobs     == Get(self.config, "jobs", <<>>)
        errors   == Flatten([i \in 1..Len(servers) |->
                                 ServerGroupErrors(servers[i], i)])
                    \o Flatten([i \in 1..Len(jobs) |-> JobErrors(jobs, i)])
    IN  IF required # <<>> THEN [valid |-> FALSE, errors |-> required]
        ELSE [valid |-> errors = <<>>, errors |-> errors]

\* CronConfig.get_hosts(group): group = None takes every group
get_hosts(self, group) ==
    LET servers == Get(self.config, "servers", <<>>)
    IN  Flatten([i \in 1..Len(servers) |->
                    IF group = None \/ Get(servers[i], "group", None) = group
                    THEN Get(servers[i], "hosts", <<>>)
                    ELSE <<>>])

\* get_jobs if the enabled flag were not looked at
SelectJobsWhateverEnabled(jobs, enabled_only) == jobs

\* [x for x in xs if keep(x)], the order kept
RECURSIVE SelectJobs(_, _)
SelectJobs(jobs, enabled_only) ==
    IF jobs = <<>> THEN <<>>
    ELSE (IF enabled_only /\ ~Get(Head(jobs), "enabled", TRUE)
          THEN <<>> ELSE <<Head(jobs)>>)
         \o SelectJobs(Tail(jobs), enabled_only)

\* CronConfig.get_jobs(enabled_only)
get_jobs(self, enabled_only) ==
    SelectJobs(Get(self.config, "jobs", <<>>), enabled_only)

DigitChar(n) == CHOOSE c \in Digits : DigitVal(c) = n

\* datetime.strftime('%Y-%m-%d %H:%M:%S') of the clock, which counts the
\* seconds of one minute
Strftime(now) ==
    <<"2024-02-12 10:30:", DigitChar((now \div 10) % 10), DigitChar(now % 10)>>

\* the command if stderr were always merged into the stdout log
CommandMergingStderr(job) ==
    LET out == Get(job, "log_stdout", None)
    IN  job["command"]
        \o (IF out # None THEN <<" >> ">> \o out \o <<" 2>&1">> ELSE <<>>)

\* the command of a job with its log redirection appended
CommandWithRedirect(job) ==
    LET out == Get(job, "log_stdout", None)
        err == Get(job, "log_stderr", None)
    IN  job["command"]
        \o (IF out # None THEN <<" >> ">> \o out ELSE <<>>)
        \o (IF err # None THEN <<" 2>> ">> \o err
            ELSE IF out # None THEN <<" 2>&1">>
            ELSE <<>>)

\* the lines generate_crontab appends for one job
JobLines(job, user) ==
    IF user # None /\ Get(job, "user", None) # user THEN <<>>
    ELSE << <<"# ">> \o job["name"] >>
         \o (IF "description" \in DOMAIN job
             THEN << <<"# ">> \o job["description"] >> ELSE <<>>)
         \o << job["schedule"] \o <<" ">> \o CommandWithRedirect(job) >>
         \o << <<>> >>

\* the lines generate_crontab collects, the clock reading now; environment is
\* the sequence of the (key, value) items of the mapping in insertion order
CrontabLines(self, user, now) ==
    LET environment == Get(self.config, "environment", <<>>)
        jobs  == get_jobs(self, TRUE)
    IN  << <<"# Generated by Cron Manager">>,
           <<"# Generated at: ">> \o Strftime(now),
           <<"# Config file: ">> \o self.config_file,
           <<>> >>
        \o (IF "environment" \in DOMAIN self.config
            THEN [i \in 1..Len(environment) |->
                     environment[i][1] \o <<"=">> \o environment[i][2]]
                 \o << <<>> >>
            ELSE <<>>)
        \o Flatten([i \in 1..Len(jobs) |-> JobLines(jobs[i], user)])

\* the text if the time of generation were also written below the jobs
GenerateCrontabStampedAtEnd(self, user, now) ==
    Join(CrontabLines(self, user, now)
             \o << <<"# Generated at: ">> \o Strftime(now) >>,
         <<"\n">>)

\* CronConfig.generate_crontab(user), the clock reading now
generate_crontab(self, user, now) ==
    Join(CrontabLines(self, user, now), <<"\n">>)

(***************************************************************************)
(* The remote hosts and the futures of one deploy call.                    *)
(***************************************************************************)
AllHosts == 1..MaxHosts

NoFile == [exists |-> FALSE]

File(content) == [exists |-> TRUE, content |-> content]

\* what `crontab -l` of the user lists on a host before the deployment: the
\* odd hosts have a schedule, the even hosts have none
OldCrontab(h) ==
    IF h % 2 = 1 THEN File(<<"0 0 * * * /old/job", "\n">>) ELSE NoFile

NoResult == [done |-> FALSE]

\* the (success, message) a deploy_crontab call returns
Outcome(success, message) ==
    [done |-> TRUE, success |-> success, message |-> message]

\* what a failing connect raises
ConnectErrors == {"timed out", "Authentication failed."}

\* wc -l of a text
LineCount(content) == Cardinality({k \in 1..Len(content) : content[k] = "\n"})

Entries == DOMAIN tpc

\* the entries whose deploy_crontab call is running on a pool thread
InProgress ==
    {i \in Entries :
        tpc[i] \in {"connect", "bconnect", "backup", "upload", "install", "verify"}}

\* the sessions that are open
OpenSessions ==
    Cardinality({i \in Entries : client[i] = "open"})
    + Cardinality({i \in Entries : bclient[i] = "open"})

\* deploy passes backup=True to every deploy_crontab call
backup == TRUE

\* deploy passes its ssh_user, 'root' unless the caller names another, as
\* the user of every deploy_crontab call: the install command is
\* `crontab -u <ssh_user>`
DeployUser == <<"root">>

\* the environment may make one more remote operation fail
MayFail == faults < MaxFaults

(***************************************************************************)
(* CronManager.deploy, up to the creation of the thread pool: validation   *)
(* gate, host list, rendering, dry run.                                    *)
(***************************************************************************)
\* `not hosts` tested without effect
NoHostsNeverTrue(hs) == FALSE

\* not hosts
NoHosts(hs) == hs = <<>>

Return(value, report) ==
    /\ pc' = "returned"
    /\ result' = [returned |-> TRUE, value |-> value]
    /\ printed' = report

DeployCall ==
    /\ pc = "call"
    /\ LET v  == validate(config)
           hs == IF params.hosts.given THEN params.hosts.list
                 ELSE get_hosts(config, None)
           content == generate_crontab(config, None, params.now)
       IN  IF ~v.valid
           THEN /\ Return(FALSE, [kind |-> "validation_failed", errors |-> v.errors])
                /\ UNCHANGED <<hosts, crontab_content, workerVars>>
           ELSE IF NoHosts(hs)
           THEN /\ Return(FALSE, [kind |-> "no_hosts"])
                /\ hosts' = hs
                /\ UNCHANGED <<crontab_content, workerVars>>
           ELSE IF params.dry_run
           THEN /\ Return(TRUE, [kind |-> "dry_run", content |-> content,
                                 hosts |-> hs])
                /\ hosts' = hs
                /\ crontab_content' = content
                /\ UNCHANGED workerVars
           ELSE /\ pc' = IF hs = <<>> THEN "collect" ELSE "submit"
                /\ hosts' = hs
                /\ crontab_content' = content
                /\ tpc' = [i \in 1..Len(hs) |-> "new"]
                /\ fut' = [i \in 1..Len(hs) |-> NoResult]
                /\ client' = [i \in 1..Len(hs) |-> "none"]
                /\ bclient' = [i \in 1..Len(hs) |-> "none"]
                /\ warned' = [i \in 1..Len(hs) |-> FALSE]
                /\ UNCHANGED <<printed, result>>
    /\ UNCHANGED <<pureVars, inputVars, success_count, failed_count, collected,
                   remoteVars, faults>>

\* executor.submit for the next host of the list; after the last one the
\* loop over as_completed begins
Submit(i) ==
    /\ pc = "submit"
    /\ tpc[i] = "new"
    /\ \A k \in 1..(i - 1) : tpc[k] # "new"
    /\ tpc' = [tpc EXCEPT ![i] = "queued"]
    /\ pc' = IF i = Len(hosts) THEN "collect" ELSE "submit"
    /\ UNCHANGED <<pureVars, inputVars, hosts, crontab_content, printed, result,
                   success_count, failed_count, collected, fut, client, bclient,
                   warned, remoteVars, faults>>

\* a pool that cancels the queued work items once a host has failed
WorkerStartCancelling(i) ==
    /\ tpc[i] = "queued"
    /\ \A k \in 1..(i - 1) : tpc[k] \notin {"new", "queued"}
    /\ Cardinality(InProgress) < params.max_workers
    /\ IF \E k \in Entries : fut[k].done /\ ~fut[k].success
       THEN /\ tpc' = [tpc EXCEPT ![i] = "done"]
            /\ fut' = [fut EXCEPT ![i] = Outcome(FALSE, <<"cancelled">>)]
       ELSE /\ tpc' = [tpc EXCEPT ![i] = "connect"]
            /\ UNCHANGED fut
    /\ UNCHANGED <<pureVars, inputVars, mainVars, client, bclient, warned,
                   remoteVars, faults>>

\* a pool that starts a thread for every work item
WorkerStartUnbounded(i) ==
    /\ tpc[i] = "queued"
    /\ tpc' = [tpc EXCEPT ![i] = "connect"]
    /\ UNCHANGED <<pureVars, inputVars, mainVars, fut, client, bclient, warned,
                   remoteVars, faults>>

\* a pool thread takes the oldest queued work item; the pool has at most
\* max_workers threads
WorkerStart(i) ==
    /\ tpc[i] = "queued"
    /\ \A k \in 1..(i - 1) : tpc[k] \notin {"new", "queued"}
    /\ Cardinality(InProgress) < params.max_workers
    /\ tpc' = [tpc EXCEPT ![i] = "connect"]
    /\ UNCHANGED <<pureVars, inputVars, mainVars, fut, client, bclient, warned,
                   remoteVars, faults>>

(***************************************************************************)
(* CronDeployer.deploy_crontab and backup_crontab, one remote operation    *)
(* per step.  An exception leaves deploy_crontab through `except`, which   *)
(* returns (False, str(e)).                                                *)
(***************************************************************************)
Finish(i, success, message) ==
    /\ tpc' = [tpc EXCEPT ![i] = "done"]
    /\ fut' = [fut EXCEPT ![i] = Outcome(success, message)]

\* deploy_crontab if it went on after a failed connect
ConnectFailureIgnored(i) ==
    /\ tpc[i] = "connect"
    /\ tpc' = [tpc EXCEPT ![i] = IF backup THEN "bconnect" ELSE "upload"]
    /\ \/ /\ client' = [client EXCEPT ![i] = "open"]
          /\ UNCHANGED faults
       \/ /\ MayFail
          /\ faults' = faults + 1
          /\ UNCHANGED client
    /\ UNCHANGED <<pureVars, inputVars, mainVars, fut, bclient, warned, remoteVars>>

\* client = self._get_ssh_client(host)
Connect(i) ==
    /\ tpc[i] = "connect"
    /\ \/ /\ client' = [client EXCEPT ![i] = "open"]
          /\ tpc' = [tpc EXCEPT ![i] = IF backup THEN "bconnect" ELSE "upload"]
          /\ UNCHANGED <<fut, faults>>
       \/ /\ MayFail
          /\ \E e \in ConnectErrors : Finish(i, FALSE, <<"ssh_connect_failed", e>>)
          /\ faults' = faults + 1
          /\ UNCHANGED client
    /\ UNCHANGED <<pureVars, inputVars, mainVars, bclient, warned, remoteVars>>

\* backup_crontab: client = self._get_ssh_client(host); a failure returns
\* (False, str(e)) and deploy_crontab prints the warning
BackupConnect(i) ==
    /\ tpc[i] = "bconnect"
    /\ \/ /\ bclient' = [bclient EXCEPT ![i] = "open"]
          /\ tpc' = [tpc EXCEPT ![i] = "backup"]
          /\ UNCHANGED <<warned, faults>>
       \/ /\ MayFail
          /\ warned' = [warned EXCEPT ![i] = TRUE]
          /\ tpc' = [tpc EXCEPT ![i] = "upload"]
          /\ faults' = faults + 1
          /\ UNCHANGED bclient
    /\ UNCHANGED <<pureVars, inputVars, mainVars, fut, client, remoteVars>>

\* the file `crontab -u user -l > backup_file 2>/dev/null || echo ...` leaves
\* when the backup directory exists: the listing, or nothing for a user
\* without a schedule
BackupFileOf(cron) == IF cron.exists THEN File(cron.content) ELSE File(<<>>)

\* backup_crontab: the two exec_command calls, client.close(), return
\* (True, backup_file).  The exit statuses are read and not looked at.
Backup(i) ==
    /\ tpc[i] = "backup"
    /\ tpc' = [tpc EXCEPT ![i] = "upload"]
    /\ \/ \* both commands run
          /\ rbackup' = [rbackup EXCEPT ![hosts[i]] = BackupFileOf(rcron[hosts[i]])]
          /\ bclient' = [bclient EXCEPT ![i] = "closed"]
          /\ UNCHANGED <<warned, faults>>
       \/ \* mkdir -p exits non-zero, so that the redirection has no directory
          \* to write to: the `|| echo` ends the command with status 0, no
          \* file is left and backup_crontab returns (True, backup_file)
          /\ MayFail
          /\ bclient' = [bclient EXCEPT ![i] = "closed"]
          /\ faults' = faults + 1
          /\ UNCHANGED <<warned, rbackup>>
       \/ \* exec_command raises: client.close() is not reached
          /\ MayFail
          /\ warned' = [warned EXCEPT ![i] = TRUE]
          /\ faults' = faults + 1
          /\ UNCHANGED <<bclient, rbackup>>
    /\ UNCHANGED <<pureVars, inputVars, mainVars, fut, client, rtmp, rcron>>

\* the remote file if the local temporary file were put before it is flushed
PutUnflushed(content) == File(<<>>)

\* the remote file sftp.put leaves: the local temporary file, which holds
\* crontab_content and is closed before the put
PutTempFile(content) == File(content)

\* the local temporary file, open_sftp, sftp.put, sftp.close
Upload(i) ==
    /\ tpc[i] = "upload"
    /\ \/ /\ rtmp' = [rtmp EXCEPT ![hosts[i]] = PutTempFile(crontab_content)]
          /\ tpc' = [tpc EXCEPT ![i] = "install"]
          /\ UNCHANGED <<fut, faults>>
       \/ /\ MayFail
          /\ Finish(i, FALSE, <<"exception", "upload">>)
          /\ faults' = faults + 1
          /\ UNCHANGED rtmp
    /\ UNCHANGED <<pureVars, inputVars, mainVars, client, bclient, warned,
                   rcron, rbackup>>

\* the install step if the exit status were not looked at
InstallExitStatusIgnored(i) ==
    /\ tpc[i] = "install"
    /\ tpc' = [tpc EXCEPT ![i] = "verify"]
    /\ \/ /\ rtmp[hosts[i]].exists
          /\ rcron' = [rcron EXCEPT ![hosts[i]] = rtmp[hosts[i]]]
          /\ rtmp' = [rtmp EXCEPT ![hosts[i]] = NoFile]
          /\ UNCHANGED faults
       \/ /\ ~rtmp[hosts[i]].exists
          /\ UNCHANGED <<rtmp, rcron, faults>>
       \/ /\ MayFail
          /\ rtmp[hosts[i]].exists
          /\ faults' = faults + 1
          /\ UNCHANGED <<rtmp, rcron>>
    /\ UNCHANGED <<pureVars, inputVars, mainVars, fut, client, bclient, warned,
                   rbackup>>

\* crontab -u user remote_temp && rm -f remote_temp, and the test of its
\* exit status
Install(i) ==
    /\ tpc[i] = "install"
    /\ \/ \* exit status 0
          /\ rtmp[hosts[i]].exists
          /\ rcron' = [rcron EXCEPT ![hosts[i]] = rtmp[hosts[i]]]
          /\ rtmp' = [rtmp EXCEPT ![hosts[i]] = NoFile]
          /\ tpc' = [tpc EXCEPT ![i] = "verify"]
          /\ UNCHANGED <<fut, faults>>
       \/ \* the temporary file is gone: crontab cannot read it
          /\ ~rtmp[hosts[i]].exists
          /\ Finish(i, FALSE, <<"install_failed", "No such file or directory">>)
          /\ UNCHANGED <<rtmp, rcron, faults>>
       \/ \* crontab refuses the file
          /\ MayFail
          /\ rtmp[hosts[i]].exists
          /\ Finish(i, FALSE, <<"install_failed", "errors in crontab file">>)
          /\ faults' = faults + 1
          /\ UNCHANGED <<rtmp, rcron>>
       \/ \* exec_command raises
          /\ MayFail
          /\ Finish(i, FALSE, <<"exception", "install">>)
          /\ faults' = faults + 1
          /\ UNCHANGED <<rtmp, rcron>>
    /\ UNCHANGED <<pureVars, inputVars, mainVars, client, bclient, warned,
                   rbackup>>

\* crontab -u user -l | wc -l, client.close(), return (True, ...)
Verify(i) ==
    /\ tpc[i] = "verify"
    /\ \/ /\ client' = [client EXCEPT ![i] = "closed"]
          /\ Finish(i, TRUE,
                    <<"deployed",
                      IF rcron[hosts[i]].exists
                      THEN LineCount(rcron[hosts[i]].content) ELSE 0>>)
          /\ UNCHANGED faults
       \/ /\ MayFail
          /\ Finish(i, FALSE, <<"exception", "verify">>)
          /\ faults' = faults + 1
          /\ UNCHANGED client
    /\ UNCHANGED <<pureVars, inputVars, mainVars, bclient, warned, remoteVars>>

(***************************************************************************)
(* CronManager.deploy: the loop over as_completed, and the return.         *)
(***************************************************************************)
\* the loop if a failed result were printed and not counted
CollectFailureNotCounted(i) ==
    /\ pc = "collect"
    /\ tpc[i] = "done"
    /\ i \notin collected
    /\ collected' = collected \cup {i}
    /\ success_count' = IF fut[i].success THEN success_count + 1 ELSE success_count
    /\ UNCHANGED <<pureVars, inputVars, pc, hosts, crontab_content, printed,
                   result, failed_count, workerVars, remoteVars, faults>>

\* as_completed yields a finished future that it has not yielded yet
Collect(i) ==
    /\ pc = "collect"
    /\ tpc[i] = "done"
    /\ i \notin collected
    /\ collected' = collected \cup {i}
    /\ success_count' = IF fut[i].success THEN success_count + 1 ELSE success_count
    /\ failed_count' = IF fut[i].success THEN failed_count ELSE failed_count + 1
    /\ UNCHANGED <<pureVars, inputVars, pc, hosts, crontab_content, printed,
                   result, workerVars, remoteVars, faults>>

\* the return value if it were taken from the successes
AnySuccess == success_count > 0

\* return failed_count == 0
OverallResult == failed_count = 0

\* the return if deploy did not wait for the futures that are still running
DeployReturnWithoutWaiting ==
    /\ pc = "collect"
    /\ collected = {i \in Entries : tpc[i] = "done"}
    /\ Return(OverallResult,
              [kind |-> "summary", success |-> success_count,
               failed |-> failed_count, total |-> success_count + failed_count])
    /\ UNCHANGED <<pureVars, inputVars, hosts, crontab_content, success_count,
                   failed_count, collected, workerVars, remoteVars, faults>>

\* as_completed is exhausted, the pool is shut down, the summary is printed
DeployReturn ==
    /\ pc = "collect"
    /\ collected = Entries
    /\ Return(OverallResult,
              [kind |-> "summary", success |-> success_count,
               failed |-> failed_count, total |-> success_count + failed_count])
    /\ UNCHANGED <<pureVars, inputVars, hosts, crontab_content, success_count,
                   failed_count, collected, workerVars, remoteVars, faults>>

(***************************************************************************)
(* The deploy calls that are checked.                                      *)
(***************************************************************************)
JobA ==
    [name |-> <<"a">>, schedule |-> <<"*", "/", "5", " ", "*", " ", "*", " ", "*", " ", "*">>, command |-> <<"e", "c", "h", "o", " ", "h", "i">>,
     user |-> <<"root">>, log_stdout |-> <<"/var/log/a.log">>]

JobB ==
    [name |-> <<"b">>, schedule |-> <<"0", " ", "2", " ", "*", " ", "*", " ", "1", "-", "5">>, command |-> <<"l", "s">>,
     user |-> <<"www">>, enabled |-> FALSE]

JobW ==
    [name |-> <<"w">>, schedule |-> <<"3", "0", " ", "1", " ", "*", " ", "*", " ", "0">>, command |-> <<"d", "f">>,
     user |-> <<"www">>, description |-> <<"disk usage">>,
     log_stderr |-> <<"/var/log/w.err">>, enabled |-> TRUE]

JobBadSchedule ==
    [name |-> <<"c">>, schedule |-> <<"6", "0", " ", "*", " ", "*", " ", "*", " ", "*">>, command |-> <<"l", "s">>, enabled |-> FALSE]

JobDangerous ==
    [name |-> <<"d">>, schedule |-> <<"*", " ", "*", " ", "*", " ", "*", " ", "*">>, command |-> <<"r", "m", " ", "-", "r", "f", " ", "/">>]

JobNoName == [schedule |-> <<"*", " ", "*", " ", "*", " ", "*", " ", "*">>, command |-> <<"l", "s">>]

JobNoSchedule == [name |-> <<"e">>, command |-> <<"l", "s">>]

JobNoCommand == [name |-> <<"a">>, schedule |-> <<"1", ",", "2", " ", "*", " ", "*", " ", "*", " ", "*">>]

JobPool ==
    {JobA, JobB, JobBadSchedule, JobDangerous, JobNoName, JobNoSchedule,
     JobNoCommand}

JobLists == UNION {[1..n -> JobPool] : n \in 0..MaxJobs}

OneGroup == << [group |-> <<"web">>, hosts |-> <<1>>] >>

\* environments for the validation gate: every job list, the flaws of the
\* required keys and of the server groups, and an environment with enabled
\* jobs of two users
GateConfigs ==
    {[servers |-> OneGroup, jobs |-> jl] : jl \in JobLists}
    \cup { [servers |-> OneGroup, jobs |-> <<JobA, JobW>>],
           [jobs |-> <<JobA>>],
           [servers |-> OneGroup],
           [environment |-> <<>>],
           [servers |-> <<>>, jobs |-> <<JobA>>],
           [servers |-> << [hosts |-> <<1>>] >>, jobs |-> <<JobA>>],
           [servers |-> << [group |-> <<"web">>] >>, jobs |-> <<JobA>>],
           [servers |-> << [group |-> <<"web">>, hosts |-> <<>>] >>,
            jobs |-> <<JobA>>] }

HostsNotGiven == [given |-> FALSE, list |-> <<>>]

HostsGiven(list) == [given |-> TRUE, list |-> list]

\* n distinct hosts
DistinctHosts(n) == [i \in 1..n |-> i]

\* n entries, the last one being the first host again
RepeatedHost(n) == [i \in 1..n |-> IF i = n THEN 1 ELSE i]

FleetLists ==
    {DistinctHosts(n) : n \in 2..MaxHosts}
    \cup {RepeatedHost(n) : n \in 2..(MaxHosts - 1)}

\* the hosts of a fleet in two groups, the last entry alone in the second
FleetConfig(list) ==
    [servers |-> << [group |-> <<"web">>, hosts |-> SubSeq(list, 1, Len(list) - 1)],
                    [group |-> <<"db">>, hosts |-> <<list[Len(list)]>>] >>,
     jobs |-> <<JobA, JobB>>,
     environment |-> << <<<<"S", "H", "E", "L", "L">>, <<"/", "b", "i", "n", "/", "s", "h">>>> >>]

ConfigFile == <<"config/prod.yaml">>

GateCalls ==
    {<<[config_file |-> ConfigFile, config |-> c],
       [hosts |-> h, dry_run |-> d, max_workers |-> 1, now |-> 7]>> :
        c \in GateConfigs,
        h \in {HostsNotGiven, HostsGiven(<<>>), HostsGiven(<<2>>)},
        d \in BOOLEAN}

FleetCalls ==
    {<<[config_file |-> ConfigFile, config |-> FleetConfig(list)],
       [hosts |-> HostsNotGiven, dry_run |-> d, max_workers |-> w, now |-> 7]>> :
        list \in FleetLists, d \in BOOLEAN, w \in {1, MaxWorkers}}

\* no deploy call has begun: the state around deploy before it is entered
DeployIdle ==
    /\ pc = "call"
    /\ hosts = <<>>
    /\ crontab_content = <<>>
    /\ printed = [kind |-> "nothing"]
    /\ result = [returned |-> FALSE]
    /\ success_count = 0
    /\ failed_count = 0
    /\ collected = {}
    /\ tpc = <<>>
    /\ fut = <<>>
    /\ client = <<>>
    /\ bclient = <<>>
    /\ warned = <<>>
    /\ rtmp = [h \in AllHosts |-> NoFile]
    /\ rcron = [h \in AllHosts |-> OldCrontab(h)]
    /\ rbackup = [h \in AllHosts |-> NoFile]
    /\ faults = 0

Init ==
    /\ arg = None
    /\ ret = NotCalled
    /\ \E c \in GateCalls \cup FleetCalls : config = c[1] /\ params = c[2]
    /\ DeployIdle

Next ==
    \/ DeployCall
    \/ \E i \in Entries : Submit(i)
    \/ \E i \in Entries : WorkerStart(i)
    \/ \E i \in Entries : Connect(i)
    \/ \E i \in Entries : BackupConnect(i)
    \/ \E i \in Entries : Backup(i)
    \/ \E i \in Entries : Upload(i)
    \/ \E i \in Entries : Install(i)
    \/ \E i \in Entries : Verify(i)
    \/ \E i \in Entries : Collect(i)
    \/ DeployReturn

Spec == Init /\ [][Next]_vars

\* a step of a pool thread or of the submit loop
WorkerProgress ==
    \/ \E i \in Entries : Submit(i)
    \/ \E i \in Entries : WorkerStart(i)
    \/ \E i \in Entries : Connect(i)
    \/ \E i \in Entries : BackupConnect(i)
    \/ \E i \in Entries : Backup(i)
    \/ \E i \in Entries : Upload(i)
    \/ \E i \in Entries : Install(i)
    \/ \E i \in Entries : Verify(i)

\* a step of deploy once the call has begun: the pool threads, the submit
\* loop, the loop over as_completed and the return
DeployRunning ==
    \/ WorkerProgress
    \/ \E i \in Entries : Collect(i)
    \/ DeployReturn

\* the pool threads and the main thread keep running, and every remote
\* operation terminates
FairSpec == Spec /\ WF_vars(DeployRunning)

(***************************************************************************)
(* The schedule expressions the validator is checked on.                   *)
(***************************************************************************)
Alphabet == {"*", "/", "-", ",", "+", "_", "a", "0", "1", "2", "6", "8"}

\* every text of at most MaxFieldLen characters over Alphabet
ShortTexts == UNION {[1..n -> Alphabet] : n \in 0..MaxFieldLen}

\* numbers at and just past the ends of the five ranges
BoundaryNumbers ==
    { <<"0">>, <<"1">>, <<"7">>, <<"8">>, <<"1", "2">>, <<"1", "3">>,
      <<"2", "3">>, <<"2", "4">>, <<"3", "1">>, <<"3", "2">>,
      <<"5", "9">>, <<"6", "0">> }

\* steps, ranges, lists and mixtures of them built from the boundary numbers
BuiltTexts ==
    {<<"*", "/">> \o a : a \in BoundaryNumbers}
    \cup {a \o <<x>> \o b :
            a \in BoundaryNumbers, b \in BoundaryNumbers, x \in {"-", ","}}
    \cup {a \o <<x>> \o b \o <<y>> \o c :
            a \in BoundaryNumbers, b \in {<<"1">>, <<"8">>, <<"1", "2">>},
            c \in {<<"1">>, <<"3", "2">>}, x \in {"-", ","}, y \in {"-", ","}}

FieldTexts == ShortTexts \cup BuiltTexts

Star == <<"*">>

\* one field under test among stars; a few fields everywhere; 0 to 7 fields
\* with several separators and surrounding whitespace
ScheduleInputs ==
    {Join([i \in 1..5 |-> IF i = k THEN f ELSE Star], <<" ">>) :
        k \in 1..5, f \in FieldTexts \ {<<>>}}
    \cup {Join(fs, <<" ">>) :
            fs \in [1..5 -> {Star, <<"0">>, <<"7">>, <<"2", "4">>}]}
    \cup {pad \o Join([i \in 1..n |-> <<"1">>], sep) \o pad :
            n \in 0..7, sep \in {<<" ">>, <<"\t">>, <<" ", " ">>},
            pad \in {<<>>, <<" ">>}}

InitSchedule ==
    /\ arg \in ScheduleInputs
    /\ ret = NotCalled
    /\ config = [config_file |-> ConfigFile,
                 config |-> [servers |-> <<>>, jobs |-> <<>>]]
    /\ params = [hosts |-> HostsNotGiven, dry_run |-> TRUE, max_workers |-> 1,
                 now |-> 0]
    /\ DeployIdle

CallValidateSchedule ==
    /\ ret = NotCalled
    /\ ret' = [called |-> TRUE, result |-> validate_schedule(arg)]
    /\ UNCHANGED <<arg, deployVars>>

NextSchedule == CallValidateSchedule

SpecSchedule == InitSchedule /\ [][NextSchedule]_vars

(***************************************************************************)
(* The commands the validator is checked on: up to MaxWords words joined   *)
(* by a separator, and the blank commands.                                 *)
(***************************************************************************)
Words ==
    { <<"r", "m">>, <<"R", "m">>, <<"-", "r", "f">>, <<"-", "f", "r">>,
      <<"/">>, <<"/", "t">>, <<"d", "d">>, <<"i", "f", "=", "a">>,
      <<"o", "f", "=", "/", "d", "e", "v", "/", "s">>, <<"o", "f", "=", "/", "t">>,
      <<"m", "k", "f", "s", ".", "x">>, <<"m", "k", "f", "s">>,
      <<"f", "o", "r", "m", "a", "t">>, <<"h", "i">> }

WordSeparators == {<<" ">>, <<"\t", " ">>, <<>>}

BlankCommands == {<<>>, <<" ">>, <<"\t", "\n">>, <<" ", " ", "\r">>}

CommandInputs ==
    {Join(ws, sep) :
        ws \in UNION {[1..n -> Words] : n \in 1..MaxWords},
        sep \in WordSeparators}
    \cup BlankCommands

InitCommand ==
    /\ arg \in CommandInputs
    /\ ret = NotCalled
    /\ config = [config_file |-> ConfigFile,
                 config |-> [servers |-> <<>>, jobs |-> <<>>]]
    /\ params = [hosts |-> HostsNotGiven, dry_run |-> TRUE, max_workers |-> 1,
                 now |-> 0]
    /\ DeployIdle

CallValidateCommand ==
    /\ ret = NotCalled
    /\ ret' = [called |-> TRUE, result |-> validate_command(arg)]
    /\ UNCHANGED <<arg, deployVars>>

NextCommand == CallValidateCommand

SpecCommand == InitCommand /\ [][NextCommand]_vars

(***************************************************************************)
(* The calls of generate_crontab that are checked: an environment, a user  *)
(* filter, and a clock that advances between two calls on the same         *)
(* CronConfig.                                                             *)
(***************************************************************************)
JobNoUser == [name |-> <<"n">>, schedule |-> <<"*", " ", "*", " ", "*", " ", "*", " ", "*">>, command |-> <<"l", "s">>]

JobOff ==
    [name |-> <<"o">>, schedule |-> <<"5", " ", "5", " ", "*", " ", "*", " ", "*">>, command |-> <<"l", "s">>,
     user |-> <<"root">>, enabled |-> FALSE]

JobLogged ==
    [name |-> <<"l">>, schedule |-> <<"@", "d", "a", "i", "l", "y">>, command |-> <<"d", "u">>,
     user |-> <<"root">>, log_stdout |-> <<"/var/log/l.out">>,
     log_stderr |-> <<"/var/log/l.err">>]

RenderJobLists ==
    UNION {[1..n -> {JobA, JobB, JobW, JobNoUser, JobOff, JobLogged}] :
               n \in 0..MaxJobs}

RenderConfigs ==
    {[servers |-> OneGroup, jobs |-> jl] : jl \in RenderJobLists}
    \cup {[servers |-> OneGroup, jobs |-> jl,
           environment |-> << <<<<"PATH">>, <<"/bin">>>>, <<<<"MAILTO">>, <<>>>> >>] :
             jl \in RenderJobLists}
    \cup {[servers |-> OneGroup, jobs |-> <<JobA, JobOff>>, environment |-> <<>>],
          [servers |-> OneGroup]}

UserFilters == {None, <<"root">>, <<"www">>}

InitRender ==
    /\ \E c \in RenderConfigs, u \in UserFilters :
           arg = [self |-> [config_file |-> ConfigFile, config |-> c],
                  user |-> u, now |-> 0]
    /\ ret = NotCalled
    /\ config = [config_file |-> ConfigFile,
                 config |-> [servers |-> <<>>, jobs |-> <<>>]]
    /\ params = [hosts |-> HostsNotGiven, dry_run |-> TRUE, max_workers |-> 1,
                 now |-> 0]
    /\ DeployIdle

\* time passes
Tick ==
    /\ arg.now < MaxClock
    /\ arg' = [arg EXCEPT !.now = @ + 1]
    /\ UNCHANGED <<ret, deployVars>>

\* generate_crontab(user) is called, a first and a second time
CallGenerateCrontab ==
    /\ "previous" \notin DOMAIN ret
    /\ LET content == generate_crontab(arg.self, arg.user, arg.now)
       IN  ret' = IF ret.called
                  THEN [called |-> TRUE, result |-> content, at |-> arg.now,
                        previous |-> ret.result, previous_at |-> ret.at]
                  ELSE [called |-> TRUE, result |-> content, at |-> arg.now]
    /\ UNCHANGED <<arg, deployVars>>

NextRender == Tick \/ CallGenerateCrontab

SpecRender == InitRender /\ [][NextRender]_vars

(***************************************************************************)
(* Claims about the deployment.                                            *)
(***************************************************************************)
Returned == result.returned

\* the entries whose deploy_crontab call has returned a failure
FailedEntries == {i \in Entries : fut[i].done /\ ~fut[i].success}

SucceededEntries == {i \in Entries : fut[i].done /\ fut[i].success}

\* what the deployment renders, for the clock reading of the call
Rendered == generate_crontab(config, None, params.now)

\* the host list the call resolves to
TargetHosts ==
    IF params.hosts.given THEN params.hosts.list ELSE get_hosts(config, None)

HostsAreDistinct ==
    \A i \in 1..Len(hosts) : \A k \in 1..Len(hosts) : hosts[i] = hosts[k] => i = k

RemoteUntouched ==
    /\ rtmp = [h \in AllHosts |-> NoFile]
    /\ rcron = [h \in AllHosts |-> OldCrontab(h)]
    /\ rbackup = [h \in AllHosts |-> NoFile]

\* C1: once the outcome of a host has been returned by deploy_crontab, every
\* session that was opened for that host is closed, whichever step failed.
C1_SessionsClosedAtOutcome ==
    \A i \in Entries :
        fut[i].done => client[i] # "open" /\ bclient[i] # "open"

\* C2: at most max_workers sessions are open at any time, and a worker
\* holds exactly one session for its host, also while the backup runs.
C2_SessionsBounded ==
    /\ OpenSessions <= params.max_workers
    /\ \A i \in InProgress : ~(client[i] = "open" /\ bclient[i] = "open")

\* C3: every entry of the host list is counted exactly once, as a success or
\* as a failure, and when deploy returns its summary the two counts add up to
\* the number of targeted hosts.
C3_OneOutcomePerHost ==
    /\ success_count = Cardinality(collected \cap SucceededEntries)
    /\ failed_count = Cardinality(collected \cap FailedEntries)
    /\ (Returned /\ printed.kind = "summary") =>
           /\ collected = 1..Len(hosts)
           /\ \A i \in 1..Len(hosts) : fut[i].done
           /\ success_count + failed_count = Len(hosts)
           /\ printed.total = Len(hosts)

C3_Witness ==
    /\ Returned /\ printed.kind = "summary"
    /\ Len(hosts) = 3
    /\ success_count = 1 /\ failed_count = 2
    /\ \E i \in Entries : fut[i].done /\ fut[i].message = <<"exception", "verify">>

\* C4: over distinct hosts a host fails only through a failure of one of
\* its own remote operations, so there are no more failed outcomes than
\* failed operations; every host that succeeds gets the outcome it has in a
\* run without failures; no host is cancelled (every one has an outcome when
\* deploy returns) and none is blocked (while a host is unfinished some
\* worker can take a step).
C4_Isolation ==
    /\ HostsAreDistinct =>
           /\ Cardinality(FailedEntries) <= faults
           /\ \A i \in FailedEntries :
                  fut[i].message \in
                      {<<"ssh_connect_failed", e>> : e \in ConnectErrors}
                      \cup {<<"exception", "upload">>, <<"exception", "install">>,
                            <<"install_failed", "errors in crontab file">>,
                            <<"exception", "verify">>}
           /\ SucceededEntries # {} =>
                  LET deployed == Outcome(TRUE, <<"deployed", LineCount(Rendered)>>)
                  IN  \A i \in SucceededEntries : fut[i] = deployed
    /\ Returned => \A i \in Entries : fut[i].done
    /\ (\E i \in Entries : ~fut[i].done) => ENABLED WorkerProgress

\* hosts A, B, C, only the connection of B times out: exactly B has failed
C4_Witness ==
    /\ Returned
    /\ hosts = <<1, 2, 3>>
    /\ faults = 1
    /\ fut[2] = Outcome(FALSE, <<"ssh_connect_failed", "timed out">>)
    /\ fut[1].success /\ fut[3].success
    /\ failed_count = 1 /\ success_count = 2

\* a flaw of the environment, found without running validate
JobHasFlaw(jobs, i) ==
    \/ "name" \notin DOMAIN jobs[i]
    \/ "schedule" \notin DOMAIN jobs[i]
    \/ "command" \notin DOMAIN jobs[i]
    \/ ~validate_schedule(jobs[i]["schedule"]).ok
    \/ ~validate_command(jobs[i]["command"]).ok
    \/ \E k \in 1..Len(jobs) :
           k # i /\ "name" \in DOMAIN jobs[k] /\ jobs[k]["name"] = jobs[i]["name"]

EnvironmentHasFlaw ==
    \/ "jobs" \notin DOMAIN config.config
    \/ "servers" \notin DOMAIN config.config
    \/ \E i \in 1..Len(config.config["jobs"]) :
           JobHasFlaw(config.config["jobs"], i)

\* C5: when a job of the environment, enabled or not, has an invalid
\* schedule or command, a duplicate name or a missing required field, the
\* first step of deploy, in dry-run and in real mode, is to return failure
\* with no host attempted, no session opened and nothing rendered or changed
\* on a host, and deploy does nothing after it has returned.
C5_ValidationGate ==
    /\ Entries = {} /\ RemoteUntouched
    /\ [][/\ (pc = "call" /\ EnvironmentHasFlaw) =>
                 /\ pc' = "returned"
                 /\ result' = [returned |-> TRUE, value |-> FALSE]
                 /\ printed'.kind = "validation_failed"
                 /\ tpc' = <<>> /\ client' = <<>> /\ bclient' = <<>>
                 /\ hosts' = <<>>
                 /\ crontab_content' = <<>>
                 /\ UNCHANGED remoteVars
          /\ pc # "returned"]_vars

\* the flaw is a disabled job with a bad schedule after a valid enabled one
C5_Witness ==
    /\ Returned
    /\ Get(config.config, "jobs", <<>>) = <<JobA, JobBadSchedule>>
    /\ ~params.dry_run
    /\ TargetHosts # <<>>

C5_WitnessDuplicate ==
    /\ Returned
    /\ Get(config.config, "jobs", <<>>) = <<JobA, JobA>>
    /\ TargetHosts # <<>>

\* C6 as stated: a valid environment deployed to zero hosts is not rejected,
\* its result differs from the failure a validation-gate rejection returns.
C6_ZeroHostsNotRejected ==
    (Returned /\ ~EnvironmentHasFlaw /\ validate(config).valid /\ TargetHosts = <<>>)
        => result.value # FALSE

\* C6 amended: a valid environment deployed to zero hosts is rejected: deploy
\* returns False, the value it returns for a validation failure, and reports
\* "no target hosts" instead of the validation errors; nothing is rendered,
\* no host is attempted and no outcome is counted.
C6_ZeroHostsRejected ==
    (Returned /\ validate(config).valid /\ TargetHosts = <<>>) =>
        /\ result.value = FALSE
        /\ printed = [kind |-> "no_hosts"]
        /\ Entries = {}
        /\ crontab_content = <<>>
        /\ success_count = 0 /\ failed_count = 0
        /\ RemoteUntouched

C6_Witness ==
    /\ Returned
    /\ validate(config).valid
    /\ params.hosts = HostsGiven(<<>>)
    /\ ~params.dry_run

\* C7: in dry-run mode deploy opens no session and changes nothing on any
\* host, and what it displays is the rendered schedule of the environment,
\* which is also the content of every file a real deploy transfers.
C7_DryRun ==
    /\ params.dry_run =>
           /\ Entries = {}
           /\ RemoteUntouched
           /\ pc \in {"call", "returned"}
           /\ (Returned /\ result.value) =>
                  /\ printed.kind = "dry_run"
                  /\ printed.content = Rendered
                  /\ printed.hosts = TargetHosts
    /\ (~params.dry_run /\ \E h \in AllHosts : rtmp[h].exists) =>
           LET transferred == File(Rendered)
           IN  \A h \in AllHosts : rtmp[h].exists => rtmp[h] = transferred

C7_Witness ==
    /\ Returned
    /\ params.dry_run
    /\ result.value
    /\ Len(hosts) = 3

C7_WitnessTransfer ==
    /\ ~params.dry_run
    /\ \E h \in AllHosts : rtmp[h].exists

\* C8: deploy returns only when the deploy_crontab call of every submitted
\* host has finished, and, the remote operations terminating, a deploy that
\* has begun returns.
C8_WaitsForAll ==
    /\ [](Returned => \A i \in Entries : tpc[i] = "done" /\ fut[i].done)
    /\ (pc # "call") ~> Returned

C8_Witness ==
    /\ Returned
    /\ Len(hosts) = 3
    /\ params.max_workers = 2
    /\ \A i \in Entries : tpc[i] = "done"

\* C9 as stated: the result of deploy is success exactly when no per-host
\* outcome is a failure.
C9_SuccessIffNoFailure ==
    Returned => (result.value <=> FailedEntries = {})

\* C9 amended: the result of deploy is success exactly when the environment
\* passed validation, the host list is not empty and no per-host outcome is a
\* failure; a validation failure and an empty host list return failure with
\* no per-host outcome at all.
C9_SuccessIffDeployedNoFailure ==
    Returned =>
        /\ result.value <=>
               /\ ~EnvironmentHasFlaw /\ validate(config).valid
               /\ TargetHosts # <<>>
               /\ FailedEntries = {}
               /\ failed_count = 0
        /\ printed.kind \in {"validation_failed", "no_hosts"} =>
               ~result.value /\ FailedEntries = {} /\ Entries = {}

C9_Witness ==
    /\ Returned
    /\ result.value
    /\ printed.kind = "summary"
    /\ success_count = 3

C9_WitnessFailure ==
    /\ Returned
    /\ ~result.value
    /\ printed.kind = "summary"
    /\ failed_count = 1 /\ success_count = 2

(***************************************************************************)
(* C10.  The forms of a field as the specification lists them, read        *)
(* without reference to the code: a number is a non-empty run of decimal   *)
(* digits.                                                                 *)
(***************************************************************************)
IsNumber(s) == s # <<>> /\ \A k \in 1..Len(s) : s[k] \in Digits

IsNumberIn(s, r) == IsNumber(s) /\ InRange(DigitsValue(s), r)

IsStepForm(part) ==
    /\ StartsWith(part, <<"*", "/">>)
    /\ IsNumber(Drop(part, 2))
    /\ DigitsValue(Drop(part, 2)) > 0

IsRangeForm(part, r) ==
    \E k \in 1..Len(part) :
        /\ part[k] = "-"
        /\ IsNumberIn(SubSeq(part, 1, k - 1), r)
        /\ IsNumberIn(Drop(part, k), r)
        /\ DigitsValue(SubSeq(part, 1, k - 1)) <= DigitsValue(Drop(part, k))

IsListForm(part, r) ==
    /\ Contains(part, ",")
    /\ \A k \in 1..Len(SplitOn(part, ",")) :
           IsNumberIn(SplitOn(part, ",")[k], r)

IsSupportedField(part, r) ==
    \/ part = <<"*">>
    \/ IsStepForm(part)
    \/ IsRangeForm(part, r)
    \/ IsListForm(part, r)
    \/ IsNumberIn(part, r)

IsSupportedSchedule(schedule) ==
    /\ Len(SplitWs(schedule)) = 5
    /\ \A i \in 1..5 : IsSupportedField(SplitWs(schedule)[i], ranges[i])

\* C10: validate_schedule accepts an expression exactly when it has five
\* whitespace-separated fields, each of them `*`, `*/N` with N a positive
\* integer, an in-range `A-B` with A <= B, a comma-separated list of in-range
\* integers or one in-range integer; any other field count gets the
\* wrong-field-count error.
C10_AcceptsExactlySupported ==
    ret.called =>
        /\ ret.result.ok <=> IsSupportedSchedule(arg)
        /\ Len(SplitWs(arg)) # 5 => ret.result = Failed("WrongFieldCount", "none")

(***************************************************************************)
(* C11.  The destructive commands as the specification names them, read    *)
(* without reference to the patterns of the code.                          *)
(***************************************************************************)
\* rm, -rf or -fr, and the root directory itself as the target
IsRecursiveRootDelete(s) ==
    \E i \in 1..Len(s) :
        /\ MatchLit(s, i, <<"r", "m">>)
        /\ LET j == AfterSpaces(s, i + 2)
           IN  /\ j > 0
               /\ MatchLit(s, j, <<"-", "r", "f">>) \/ MatchLit(s, j, <<"-", "f", "r">>)
               /\ LET k == AfterSpaces(s, j + 3)
                  IN  /\ k > 0
                      /\ MatchLit(s, k, <<"/">>)
                      /\ k = Len(s) \/ s[k + 1] \in Whitespace

\* dd with an input and an output on a device
IsRawDeviceDump(s) == \E i \in 1..Len(s) : MatchDd(s, i)

\* mkfs, alone or with the type of the filesystem, or format with arguments
IsFormatInvocation(s) ==
    \E i \in 1..Len(s) :
        \/ /\ MatchLit(s, i, <<"m", "k", "f", "s">>)
           /\ \/ i + 3 = Len(s)
              \/ MatchLit(s, i + 4, <<".">>)
              \/ AfterSpaces(s, i + 4) > 0
        \/ MatchFormat(s, i)

IsDestructive(s) ==
    IsRecursiveRootDelete(s) \/ IsRawDeviceDump(s) \/ IsFormatInvocation(s)

\* C11: validate_command returns Empty for an empty or whitespace-only
\* command, Dangerous exactly for a command that contains a recursive delete
\* of the root filesystem, a disk dump to a raw device or a filesystem-format
\* invocation, and success for every other command.
C11_DangerousExactlyDestructive ==
    ret.called =>
        /\ IsBlank(arg) => ret.result = Failed("Empty", "command")
        /\ ~IsBlank(arg) =>
               /\ IsDestructive(arg) <=> ret.result = Failed("Dangerous", arg)
               /\ ~IsDestructive(arg) <=> ret.result = Passed

(***************************************************************************)
(* C12, C13.  The rendered text is read back as lines and as blocks, the   *)
(* runs of lines between empty lines.                                      *)
(***************************************************************************)
LinesOf(content) == SplitOn(content, "\n")

\* the runs of non-empty lines of a sequence of lines
RECURSIVE BlocksOf(_)
BlocksOf(lines) ==
    IF lines = <<>> THEN <<>>
    ELSE IF Head(lines) = <<>> THEN BlocksOf(Tail(lines))
    ELSE LET empty == {k \in 1..Len(lines) : lines[k] = <<>>}
             n == IF empty = {} THEN Len(lines) + 1
                  ELSE CHOOSE k \in empty : \A m \in empty : k <= m
         IN  <<SubSeq(lines, 1, n - 1)>> \o BlocksOf(SubSeq(lines, n, Len(lines)))

\* the blocks below the header and the block of environment variables
JobBlocks(self, content) ==
    LET blocks == BlocksOf(LinesOf(content))
        above  == IF Get(self.config, "environment", <<>>) # <<>> THEN 2 ELSE 1
    IN  SubSeq(blocks, above + 1, Len(blocks))

IsEmittedJob(job, user) ==
    /\ Get(job, "enabled", TRUE)
    /\ user # None => ("user" \in DOMAIN job /\ job["user"] = user)

\* the jobs the claim says are emitted, in the order of the environment
EmittedJobs(self, user) ==
    SelectSeq(Get(self.config, "jobs", <<>>), LAMBDA job : IsEmittedJob(job, user))

\* the block is the block of the job: its name, and its schedule at the start
\* of the last line
IsBlockOf(block, job) ==
    /\ block[1] = <<"# ">> \o job["name"]
    /\ StartsWith(block[Len(block)], job["schedule"] \o <<" ">> \o job["command"])

\* C12: the rendered schedule has one block for each enabled job (a job
\* without the flag is enabled), with a user filter for each enabled job of
\* that user, in the order of the environment, and no other block.
C12_BlocksAreEnabledJobs ==
    ret.called =>
        LET blocks == JobBlocks(arg.self, ret.result)
            jobs   == EmittedJobs(arg.self, arg.user)
        IN  /\ Len(blocks) = Len(jobs)
            /\ \A k \in 1..Len(jobs) : IsBlockOf(blocks[k], jobs[k])

\* a disabled job and a job of another user are left out
C12_Witness ==
    /\ ret.called
    /\ arg.user = <<"www">>
    /\ Get(arg.self.config, "jobs", <<>>) = <<JobB, JobW>>
    /\ Len(JobBlocks(arg.self, ret.result)) = 1

\* the text without the line of the generation time
StripTimestamp(content) == [LinesOf(content) EXCEPT ![2] = <<>>]

\* C13: two calls of generate_crontab on the same environment with the same
\* filter give the same text once the line of the generation time is taken
\* out, whatever the clock reads, and the same text when the clock reads the
\* same.
C13_Deterministic ==
    "previous" \in DOMAIN ret =>
        /\ StripTimestamp(ret.result) = StripTimestamp(ret.previous)
        /\ ret.at = ret.previous_at => ret.result = ret.previous

C13_Witness ==
    /\ "previous" \in DOMAIN ret
    /\ ret.at # ret.previous_at
    /\ ret.result # ret.previous
    /\ Len(Get(arg.self.config, "jobs", <<>>)) = 2

(***************************************************************************)
(* C14.                                                                    *)
(***************************************************************************)
\* the job has a name, a schedule and a command, and both pass their check
JobPassesChecks(job) ==
    /\ {"name", "schedule", "command"} \subseteq DOMAIN job
    /\ validate_schedule(job["schedule"]).ok
    /\ validate_command(job["command"]).ok

NamesAreDistinct(jobs) ==
    \A i \in 1..Len(jobs) : \A k \in 1..Len(jobs) :
        ("name" \in DOMAIN jobs[i] /\ "name" \in DOMAIN jobs[k]
             /\ jobs[i]["name"] = jobs[k]["name"]) => i = k

\* every block of a transferred file is the block of a job that passes
TransferredJobsPass(content) ==
    LET jobs   == Get(config.config, "jobs", <<>>)
        blocks == JobBlocks(config, content)
    IN  \A b \in 1..Len(blocks) :
            \E k \in 1..Len(jobs) :
                JobPassesChecks(jobs[k]) /\ IsBlockOf(blocks[b], jobs[k])

\* C14: when validate succeeds the names of the jobs are pairwise distinct
\* and every job, enabled or not, has a name, a schedule that passes
\* validate_schedule and a command that passes validate_command; and every
\* job block of a file transferred to a host is the block of such a job: the
\* content deploy renders has only such blocks, it is not changed afterwards
\* and every transferred file holds it.  (The environment does not change
\* during a call: it is examined when the call begins.)
C14_ValidMeansEveryJobPasses ==
    /\ []((pc = "call" /\ validate(config).valid) =>
             LET jobs == config.config["jobs"]
             IN  /\ NamesAreDistinct(jobs)
                 /\ \A k \in 1..Len(jobs) : JobPassesChecks(jobs[k]))
    /\ [](\A h \in AllHosts : rtmp[h].exists => rtmp[h].content = crontab_content)
    /\ [][/\ (pc = "call" /\ pc' = "submit") => TransferredJobsPass(crontab_content')
          /\ pc # "call" => crontab_content' = crontab_content]_vars

\* a valid environment with a disabled job, transferred to a host
C14_Witness ==
    /\ validate(config).valid
    /\ \E k \in 1..Len(config.config["jobs"]) :
           ~Get(config.config["jobs"][k], "enabled", TRUE)
    /\ \E h \in AllHosts : rtmp[h].exists

(***************************************************************************)
(* C15.                                                                    *)
(***************************************************************************)
\* C15: the host list of a deploy call has every address once, and no host
\* gets two deploy_crontab calls in one deploy.
C15_HostsDeduplicated ==
    /\ HostsAreDistinct
    /\ \A h \in AllHosts : Cardinality({i \in Entries : hosts[i] = h}) <= 1

(***************************************************************************)
(* C16.                                                                    *)
(***************************************************************************)
\* C16: at most max_workers hosts have their deploy_crontab call in progress;
\* the call of a host starts only while fewer than max_workers are in
\* progress, so a host beyond the limit starts after a running call has
\* finished; and, the running calls terminating, every submitted host is
\* started.
C16_PoolBounded ==
    /\ [](Cardinality(InProgress) <= params.max_workers)
    /\ [][\A i \in Entries :
              (tpc[i] = "queued" /\ tpc'[i] # "queued") =>
                  /\ tpc'[i] = "connect"
                  /\ Cardinality(InProgress) < params.max_workers]_vars
    /\ \A i \in AllHosts :
           (i \in Entries /\ tpc[i] = "queued")
               ~> (i \in Entries /\ tpc[i] \notin {"new", "queued"})

\* both threads of the pool are busy and a third host waits in the queue
C16_Witness ==
    /\ params.max_workers = 2
    /\ Cardinality(InProgress) = 2
    /\ \E i \in Entries : tpc[i] = "queued"

(***************************************************************************)
(* C17.                                                                    *)
(***************************************************************************)
\* deploy_crontab has gone past _get_ssh_client without a session: opening
\* the session failed
OpenFailed(i) == tpc[i] \notin {"new", "queued", "connect"} /\ client[i] = "none"

\* no other entry of the list is the same host
OnlyEntryOfHost(i) == \A k \in Entries : hosts[k] = hosts[i] => k = i

\* C17: when opening the session of a host fails its outcome is failed with
\* the connection error, and nothing else is done for it: no backup session,
\* no backup, no warning, and its files on the host are as they were.
C17_ConnectFailureStops ==
    \A i \in Entries :
        OpenFailed(i) =>
            /\ tpc[i] = "done"
            /\ fut[i] \in {Outcome(FALSE, <<"ssh_connect_failed", e>>) :
                               e \in ConnectErrors}
            /\ bclient[i] = "none"
            /\ ~warned[i]
            /\ OnlyEntryOfHost(i) =>
                   /\ rbackup[hosts[i]] = NoFile
                   /\ rtmp[hosts[i]] = NoFile
                   /\ rcron[hosts[i]] = OldCrontab(hosts[i])

\* the second of three hosts rejects the login, the others are deployed
C17_Witness ==
    /\ Returned
    /\ hosts = <<1, 2, 3>>
    /\ Entries = {1, 2, 3}
    /\ OpenFailed(2)
    /\ fut[2].message = <<"ssh_connect_failed", "Authentication failed.">>
    /\ fut[1].success /\ fut[3].success

(***************************************************************************)
(* C18, C19.                                                               *)
(***************************************************************************)
\* the deploy_crontab call of entry i returns in this step
Returns(i) == tpc[i] # "done" /\ tpc'[i] = "done"

\* a failed backup does not end the deployment of the host: the upload comes
\* next, and a failure of the host is a failure of a later step
ContinuesAfterBackupFailure ==
    \A i \in Entries :
        warned[i] =>
            /\ tpc[i] \in {"upload", "install", "verify", "done"}
            /\ client[i] # "none"
            /\ (fut[i].done /\ ~fut[i].success) =>
                   fut[i].message \in
                       {<<"exception", "upload">>, <<"exception", "install">>,
                        <<"install_failed", "errors in crontab file">>,
                        <<"install_failed", "No such file or directory">>,
                        <<"exception", "verify">>}

\* C18: after a failed backup the upload and the install are still attempted
\* and the outcome of the host is success exactly when the upload and the
\* install have succeeded.
C18_SuccessIffUploadAndInstall ==
    /\ []ContinuesAfterBackupFailure
    /\ [][\A i \in Entries :
              (warned[i] /\ Returns(i)) =>
                  (fut'[i].success <=> tpc[i] = "verify")]_vars

\* backup_crontab has returned (True, backup_file) to the call of entry i
BackupReportedSuccess(i) ==
    /\ client[i] # "none"
    /\ tpc[i] \in {"upload", "install", "verify", "done"}
    /\ ~warned[i]

\* C19: backup_crontab reports success only when the backup file has been
\* written; when the backup fails (no session, no backup directory, a failing
\* listing command) it reports failure and the warning is printed.
C19_BackupSuccessMeansFileWritten ==
    \A i \in Entries :
        BackupReportedSuccess(i) => rbackup[hosts[i]].exists

(***************************************************************************)
(* C20.                                                                    *)
(***************************************************************************)
\* the moves of one deploy_crontab call from one step to the next
StepMoves ==
    {<<"new", "queued">>, <<"queued", "connect">>,
     <<"connect", "bconnect">>, <<"connect", "done">>,
     <<"bconnect", "backup">>, <<"bconnect", "upload">>,
     <<"backup", "upload">>,
     <<"upload", "install">>, <<"upload", "done">>,
     <<"install", "verify">>, <<"install", "done">>,
     <<"verify", "done">>}

\* backup_crontab has been called for entry i and has returned
BackupAttempted(i) == bclient[i] # "none" \/ warned[i]

\* C20: the steps of a host come in the order session open, backup attempt,
\* upload, install command, read-back, and none is skipped ahead: a call
\* works on an open session, the upload starts only after the backup attempt
\* has returned, the install command runs on the file the upload has put, a
\* backup file written for a host that is listed once holds the schedule the
\* install command overwrites, and the read-back is issued only after an
\* install command that exited with status 0.
C20_StepsInOrder ==
    /\ [](\A i \in Entries :
              /\ tpc[i] \in {"bconnect", "backup", "upload", "install", "verify"} =>
                     client[i] = "open"
              /\ tpc[i] \in {"upload", "install", "verify"} =>
                     /\ BackupAttempted(i)
                     /\ bclient[i] = "open" => warned[i]
              /\ tpc[i] \in {"new", "queued", "connect", "bconnect"} =>
                     ~BackupAttempted(i))
    /\ [][\A i \in Entries :
              /\ tpc'[i] # tpc[i] => <<tpc[i], tpc'[i]>> \in StepMoves
              /\ (tpc[i] = "bconnect" /\ tpc'[i] = "upload") => warned'[i]
              /\ (Returns(i) /\ tpc[i] # "verify") => ~fut'[i].success
              /\ rcron'[hosts[i]] # rcron[hosts[i]] =>
                     \E k \in Entries :
                         /\ hosts[k] = hosts[i]
                         /\ tpc[k] = "install" /\ tpc'[k] = "verify"
                         /\ BackupAttempted(k)
                         /\ rcron'[hosts[i]] = rtmp[hosts[i]]
                         /\ (OnlyEntryOfHost(k) /\ rbackup[hosts[k]].exists) =>
                                rbackup[hosts[k]] = BackupFileOf(rcron[hosts[k]])
              /\ (tpc[i] # "verify" /\ tpc'[i] = "verify") =>
                     /\ tpc[i] = "install"
                     /\ faults' = faults
                     /\ rcron'[hosts[i]] = File(crontab_content)
                     /\ ~rtmp'[hosts[i]].exists]_vars

\* a host on which every step has run: the backup holds the schedule the
\* host had, the new schedule is installed and the read-back is next
C20_Witness ==
    \E i \in Entries :
        /\ tpc[i] = "verify"
        /\ client[i] = "open"
        /\ bclient[i] = "closed"
        /\ OldCrontab(hosts[i]).exists
        /\ rbackup[hosts[i]] = BackupFileOf(OldCrontab(hosts[i]))
        /\ rcron[hosts[i]] = File(crontab_content)
        /\ rcron[hosts[i]] # OldCrontab(hosts[i])

(***************************************************************************)
(* C21.                                                                    *)
(***************************************************************************)
\* the error texts of an install command that exited with a non-zero status
InstallErrorTexts == {"errors in crontab file", "No such file or directory"}

\* C21: an install command that exits with a non-zero status ends the call
\* with a failed outcome that carries the remote error text, and no read-back
\* is issued; an install command that exits with status 0 ends the call with
\* a success outcome whose message holds the count the read-back returns.
C21_InstallStatusDecidesOutcome ==
    [][\A i \in Entries :
          /\ (tpc[i] = "install" /\ tpc'[i] # "install"
                /\ rcron'[hosts[i]] = rcron[hosts[i]] /\ rtmp' = rtmp
                /\ fut'[i].message # <<"exception", "install">>) =>
                 /\ tpc'[i] = "done"
                 /\ ~fut'[i].success
                 /\ fut'[i].message[1] = "install_failed"
                 /\ fut'[i].message[2] \in InstallErrorTexts
          /\ (tpc[i] = "verify" /\ Returns(i)) =>
                 /\ fut'[i].success
                 /\ fut'[i].message =
                        <<"deployed", LineCount(rcron[hosts[i]].content)>>]_vars

(***************************************************************************)
(* C22.                                                                    *)
(***************************************************************************)
\* the line `echo 'No crontab'` prints
NoCrontabMarker == <<"No crontab", "\n">>

\* the backup file the claim describes for a host whose schedule is cron
DescribedBackupFile(cron) ==
    IF cron.exists THEN File(cron.content) ELSE File(NoCrontabMarker)

\* C22: when the two commands of the backup step have run in the backup
\* directory, the backup file on the host holds the listing of the schedule
\* the user had at that moment, and holds the "No crontab" marker when the
\* user had no schedule.
C22_BackupHoldsListingOrMarker ==
    [][\A i \in Entries :
          (tpc[i] = "backup" /\ tpc'[i] = "upload" /\ faults' = faults) =>
              rbackup'[hosts[i]] = DescribedBackupFile(rcron[hosts[i]])]_vars

(***************************************************************************)
(* C23.                                                                    *)
(***************************************************************************)
\* C23: once the outcome of a host is success, the temporary file of its
\* deployment is no longer on the host; the file of a finished deployment
\* remains only when its install command has exited with a non-zero status.
C23_TempFileGoneAfterSuccess ==
    \A i \in Entries :
        fut[i].done =>
            /\ fut[i].success => ~rtmp[hosts[i]].exists
            /\ rtmp[hosts[i]].exists => fut[i].message[1] = "install_failed"

(***************************************************************************)
(* C24.                                                                    *)
(***************************************************************************)
\* a path is set for the key: the key is there and its value is not empty
PathSet(job, key) == Get(job, key, None) # None

\* the text after the command when a stdout path is set
StdoutRedirects(job) ==
    <<" >> ">> \o job["log_stdout"]
    \o (IF PathSet(job, "log_stderr")
        THEN <<" 2>> ">> \o job["log_stderr"] ELSE <<" 2>&1">>)

\* the last line of each block is the schedule and the command of its job
\* with the text after(job) behind it
CommandLinesEndWith(after(_)) ==
    ret.called =>
        LET blocks == JobBlocks(arg.self, ret.result)
            jobs   == EmittedJobs(arg.self, arg.user)
        IN  /\ Len(blocks) = Len(jobs)
            /\ \A k \in 1..Len(jobs) :
                   blocks[k][Len(blocks[k])] =
                       jobs[k]["schedule"] \o <<" ">> \o jobs[k]["command"]
                       \o after(jobs[k])

\* what the claim puts behind the command: a stderr redirect only together
\* with a stdout redirect
RedirectsOnlyWithStdout(job) ==
    IF PathSet(job, "log_stdout") THEN StdoutRedirects(job) ELSE <<>>

\* what is put behind the command: a stderr redirect whenever a stderr path
\* is set
RedirectsPerPath(job) ==
    IF PathSet(job, "log_stdout") THEN StdoutRedirects(job)
    ELSE IF PathSet(job, "log_stderr") THEN <<" 2>> ">> \o job["log_stderr"]
    ELSE <<>>

\* C24 as stated: the command is followed by nothing when no stdout path is
\* set, by `>> stdout 2>&1` when only a stdout path is set and by
\* `>> stdout 2>> stderr` when both are set; a stderr redirect appears only
\* when a stdout path is set as well.
C24_StderrOnlyWithStdout == CommandLinesEndWith(RedirectsOnlyWithStdout)

\* C24 amended: the command is followed by nothing when no path is set, by
\* `>> stdout 2>&1` when only a stdout path is set, by `>> stdout 2>> stderr`
\* when both are set, and by `2>> stderr` alone when only a stderr path is
\* set.
C24_RedirectPerPath == CommandLinesEndWith(RedirectsPerPath)

\* a rendering of a job with both paths and of a job with a stderr path only
C24_Witness ==
    /\ ret.called
    /\ arg.user = None
    /\ Get(arg.self.config, "jobs", <<>>) = <<JobLogged, JobW>>
    /\ LET blocks == JobBlocks(arg.self, ret.result)
       IN  /\ Len(blocks) = 2
           /\ blocks[1][2] = <<"@", "d", "a", "i", "l", "y", " ", "d", "u",
                               " >> ", "/var/log/l.out", " 2>> ", "/var/log/l.err">>
           /\ blocks[2][3] = <<"3", "0", " ", "1", " ", "*", " ", "*", " ", "0",
                               " ", "d", "f", " 2>> ", "/var/log/w.err">>

(***************************************************************************)
(* C25.                                                                    *)
(***************************************************************************)
\* C25: two calls of one deploy that work on the same host do not disturb
\* each other: the file an install command is about to read is on the host
\* with the content its call has uploaded, and no call fails for want of the
\* file.
C25_SameHostCallsDoNotInterfere ==
    \A i \in Entries :
        /\ tpc[i] = "install" => rtmp[hosts[i]] = PutTempFile(crontab_content)
        /\ (fut[i].done /\ ~fut[i].success) =>
               fut[i].message # <<"install_failed", "No such file or directory">>

(***************************************************************************)
(* C26.                                                                    *)
(***************************************************************************)
\* C26: after a successful deployment to a host, the schedule installed for
\* a user on that host has no block of a job whose target user is another
\* user.
C26_InstalledJobsBelongToUser ==
    Returned =>
        \A i \in Entries :
            fut[i].success =>
                LET blocks == JobBlocks(config, rcron[hosts[i]].content)
                    jobs   == config.config["jobs"]
                IN  \A k \in 1..Len(blocks), j \in 1..Len(jobs) :
                        IsBlockOf(blocks[k], jobs[j]) =>
                            Get(jobs[j], "user", DeployUser) = DeployUser

====
